---- MODULE Spec2Model ----
(***************************************************************************)
(* Model of simplify.py: decimation of an EGM08 undulation grid and an     *)
(* ETOPO elevation grid to a common mesh step and export of the paired     *)
(* samples as OBJ vertex records, one geoid file and one topography file   *)
(* per exaggeration factor.                                                *)
(*                                                                         *)
(* Angles in the EGM grid are whole degrees, steps are arc-minutes.        *)
(* Python floats are IEEE-754 doubles; the quotients the program truncates *)
(* (int(), math.floor) are computed here with correctly rounded binary64   *)
(* arithmetic on multi-limb integers.                                      *)
(***************************************************************************)
EXTENDS Integers, Sequences, FiniteSets, TLC

(***************************************************************************)
(* Bounds of the model.                                                    *)
(***************************************************************************)
\* longest exaggeration-factor argument, in characters
MaxFactorLen == 3
\* the undulation grids have 2, 4, .. 2*MaxHalfBand rows per latitude band
MaxHalfBand == 3
\* the elevation grids have 3 .. MaxFields fields per row, or 27
MaxFields == 5

(***************************************************************************)
(* binary64 arithmetic on non-negative values.  A value is m * 2^e with m  *)
(* a natural number held as little-endian limbs.                           *)
(***************************************************************************)
Limb == 2^15
MantBits == 53

RECURSIVE BNorm(_)
BNorm(a) == IF a = <<>> THEN a
            ELSE IF a[Len(a)] = 0 THEN BNorm(SubSeq(a, 1, Len(a) - 1)) ELSE a

RECURSIVE BFromInt(_)
BFromInt(n) == IF n = 0 THEN <<>> ELSE <<n % Limb>> \o BFromInt(n \div Limb)

RECURSIVE BToInt(_)
BToInt(a) == IF a = <<>> THEN 0 ELSE Head(a) + Limb * BToInt(Tail(a))

RECURSIVE BCmpAt(_, _, _)
BCmpAt(a, b, i) == IF i = 0 THEN 0
                   ELSE IF a[i] < b[i] THEN -1
                   ELSE IF a[i] > b[i] THEN 1
                   ELSE BCmpAt(a, b, i - 1)

BCmp(a, b) == IF Len(a) < Len(b) THEN -1
              ELSE IF Len(a) > Len(b) THEN 1
              ELSE BCmpAt(a, b, Len(a))

RECURSIVE BSubAt(_, _, _, _)
BSubAt(a, b, i, borrow) ==
    IF i > Len(a) THEN <<>>
    ELSE LET d == a[i] - (IF i <= Len(b) THEN b[i] ELSE 0) - borrow
         IN  IF d < 0 THEN <<d + Limb>> \o BSubAt(a, b, i + 1, 1)
                      ELSE <<d>> \o BSubAt(a, b, i + 1, 0)

BSub(a, b) == BNorm(BSubAt(a, b, 1, 0))

RECURSIVE BAddAt(_, _, _, _)
BAddAt(a, b, i, carry) ==
    IF i > Len(a) /\ i > Len(b) THEN BFromInt(carry)
    ELSE LET v == (IF i <= Len(a) THEN a[i] ELSE 0)
                  + (IF i <= Len(b) THEN b[i] ELSE 0) + carry
         IN  <<v % Limb>> \o BAddAt(a, b, i + 1, v \div Limb)

BAdd(a, b) == BNorm(BAddAt(a, b, 1, 0))

RECURSIVE BMulAt(_, _, _, _)
BMulAt(a, k, i, carry) ==
    IF i > Len(a) THEN BFromInt(carry)
    ELSE LET v == a[i] * k + carry
         IN  <<v % Limb>> \o BMulAt(a, k, i + 1, v \div Limb)

BMulS(a, k) == BNorm(BMulAt(a, k, 1, 0))

RECURSIVE BMulFrom(_, _, _)
BMulFrom(a, b, i) == IF i > Len(b) THEN <<>>
                     ELSE BAdd(BMulS(a, b[i]), <<0>> \o BMulFrom(a, b, i + 1))

BMul(a, b) == BNorm(BMulFrom(a, b, 1))

RECURSIVE IntBits(_, _)
IntBits(n, width) == IF width = 0 THEN <<>>
                     ELSE Append(IntBits(n \div 2, width - 1), n % 2)

RECURSIVE BitsToInt(_, _, _)
BitsToInt(bits, i, acc) ==
    IF i > Len(bits) THEN acc ELSE BitsToInt(bits, i + 1, 2 * acc + bits[i])

StripZeros(bits) ==
    LET ones == {i \in 1..Len(bits) : bits[i] = 1}
    IN  IF ones = {} THEN <<>>
        ELSE SubSeq(bits, CHOOSE i \in ones : \A j \in ones : i <= j, Len(bits))

RECURSIVE LimbBits(_, _)
LimbBits(a, i) == IF i = 0 THEN <<>> ELSE IntBits(a[i], 15) \o LimbBits(a, i - 1)

\* the bits of a, most significant first
BBits(a) == StripZeros(LimbBits(a, Len(a)))

BFromBits(bits) ==
    LET L == Len(bits)
        n == (L + 14) \div 15
    IN  BNorm([j \in 1..n |->
                LET hi == L - 15 * (j - 1)
                    lo == IF hi - 14 < 1 THEN 1 ELSE hi - 14
                IN  BitsToInt(SubSeq(bits, lo, hi), 1, 0)])

Zeros(n) == [i \in 1..n |-> 0]

\* one limb of the long division by D, whose top limb is at least Limb / 2:
\* the digit is at most two below the estimate from the leading limbs
DivStep(st, x, D) ==
    LET r2   == BNorm(<<x>> \o st.r)
        n    == Len(D)
        top  == (IF Len(r2) > n THEN r2[n + 1] * Limb ELSE 0)
                + (IF Len(r2) >= n THEN r2[n] ELSE 0)
        qhat == IF top \div D[n] < Limb THEN top \div D[n] ELSE Limb - 1
        d    == CHOOSE c \in {qhat - 2, qhat - 1, qhat} :
                   /\ c >= 0
                   /\ BCmp(BMulS(D, c), r2) <= 0
                   /\ c = qhat \/ BCmp(BMulS(D, c + 1), r2) > 0
    IN  [r |-> BSub(r2, BMulS(D, d)), q |-> <<d>> \o st.q]

RECURSIVE LongDiv(_, _, _, _)
LongDiv(num, k, D, st) ==
    IF Len(st.q) >= 0 /\ k = 0 THEN st
    ELSE LongDiv(num, k - 1, D, DivStep(st, num[k], D))

\* N / D * 2^e rounded to nearest, ties to even, to MantBits bits
RoundDiv(N, D, e) ==
    IF N = <<>> THEN [m |-> <<>>, e |-> 0]
    ELSE LET nlen == Len(BBits(N))
             dlen == Len(BBits(D))
             sh   == (15 - (dlen % 15)) % 15
             need == dlen + MantBits + 2 - nlen
             t    == IF need > 0 THEN (need + 14) \div 15 ELSE 0
             Dn   == BMulS(D, 2^sh)
             Nn   == Zeros(t) \o BMulS(N, 2^sh)
             res  == LongDiv(Nn, Len(Nn), Dn, [r |-> <<>>, q |-> <<>>])
             qb   == BBits(BNorm(res.q))
             L    == Len(qb)
             mant == SubSeq(qb, 1, MantBits)
             rnd  == qb[MantBits + 1]
             stk  == res.r # <<>> \/ \E j \in (MantBits + 2)..L : qb[j] = 1
             up   == rnd = 1 /\ (stk \/ mant[MantBits] = 1)
             m0   == BFromBits(mant)
             m1   == IF up THEN BAdd(m0, <<1>>) ELSE m0
         IN  [m |-> m1, e |-> e - 15 * t + (L - MantBits)]

\* float(n), exact for the integers of the model
FInt(n) == [m |-> BFromInt(n), e |-> 0]
\* x / y
FDiv(x, y) == RoundDiv(x.m, y.m, x.e - y.e)
\* x * y
FMul(x, y) == RoundDiv(BMul(x.m, y.m), <<1>>, x.e + y.e)
\* int(x) and math.floor(x) of a non-negative x
FTrunc(x) == LET bits == BBits(x.m)
             IN  IF x.e >= 0 THEN BToInt(BFromBits(bits \o Zeros(x.e)))
                 ELSE IF Len(bits) <= -x.e THEN 0
                 ELSE BToInt(BFromBits(SubSeq(bits, 1, Len(bits) + x.e)))

(***************************************************************************)
(* Strings are sequences of one-character strings.                         *)
(***************************************************************************)
Digits == {"0", "1", "2", "3", "4", "5", "6", "7", "8", "9"}

DigitVal == [c \in Digits |->
               CASE c = "0" -> 0 [] c = "1" -> 1 [] c = "2" -> 2 [] c = "3" -> 3
                 [] c = "4" -> 4 [] c = "5" -> 5 [] c = "6" -> 6 [] c = "7" -> 7
                 [] c = "8" -> 8 [] c = "9" -> 9]

\* str.isdigit(): non-empty and made of digits only
isdigit(s) == s # <<>> /\ \A k \in 1..Len(s) : s[k] \in Digits

\* int(s) for a string of digits
RECURSIVE int(_)
int(s) == IF s = <<>> THEN 0 ELSE 10 * int(SubSeq(s, 1, Len(s) - 1)) + DigitVal[s[Len(s)]]

\* s.split(',')
RECURSIVE split(_)
split(s) ==
    LET commas == {k \in 1..Len(s) : s[k] = ","}
    IN  IF commas = {} THEN <<s>>
        ELSE LET k == CHOOSE c \in commas : \A d \in commas : c <= d
             IN  <<SubSeq(s, 1, k - 1)>> \o split(SubSeq(s, k + 1, Len(s)))

(***************************************************************************)
(* Command lines and input files.                                          *)
(***************************************************************************)
EgmPath == "egm.dat"
EtopoPath == "etopo.dat"

FactorAlphabet == {"1", "2", ",", "a"}
FactorArgs == UNION {[1..n -> FactorAlphabet] : n \in 0..MaxFactorLen}

StepArgs == { <<"0">>,
              <<"1", "8", "0", "0">>,
              <<"3", "6", "0", "0">>,
              <<"5", "4", "0", "0">>,
              <<"7", "2", "0", "0">>,
              <<"1", "0", "8", "0", "0">>,
              <<"2", "1", "6", "0", "0">>,
              <<"3", "2", "4", "0", "0">>,
              <<"6", "0", ".", "5">> }

\* argv[1:]
ArgVectors ==
    {<<>>, <<EgmPath>>, <<EgmPath, EtopoPath>>}
    \cup {<<EgmPath, EtopoPath, f>> : f \in FactorArgs}
    \cup {<<EgmPath, EtopoPath, f, t>> : f \in FactorArgs, t \in StepArgs}

\* the mesh steps a run can have once its arguments are accepted
TargetSteps == ({int(t) : t \in {u \in StepArgs : isdigit(u)}} \cup {60}) \ {0}

Abs(x) == IF x < 0 THEN -x ELSE x
Min(x, y) == IF x < y THEN x ELSE y

\* An undulation grid with h rows per latitude band: rows (lat, lon, ond),
\* latitude 90 down to -90, longitude 0 up to 360 exclusive, whole degrees.
EgmBandHeights == {2 * k : k \in {j \in 1..MaxHalfBand : 180 % j = 0}}
EgmGrid(h) ==
    LET step == 360 \div h
    IN  [r \in 1..(h * (h \div 2 + 1)) |->
            LET band == (r - 1) \div h
                off  == (r - 1) % h
            IN  <<90 - band * step, off * step, 3 * band - off - 2>>]

\* An elevation grid with n fields per row, longitude -180 .. 180 inclusive,
\* one row per latitude, every cell a different value (kilometres).
EtopoFieldCounts == (3..MaxFields) \cup {27}
EtopoGrid(n) ==
    [r \in 1..((n - 1) \div 2 + 1) |-> [j \in 1..n |-> (r - 1) * n + j - 4]]

(***************************************************************************)
(* Mesh steps and strides.                                                 *)
(***************************************************************************)
\* get_paso_malla_egm: round(fabs(lon_f - lon_i) * 60, 2) of the first two
\* rows; the longitudes are whole degrees, so every operation is exact
get_paso_malla_egm(file) == Abs(file[2][2] - file[1][2]) * 60

EgmPasos == {get_paso_malla_egm(EgmGrid(h)) : h \in EgmBandHeights}

\* int(a / paso_malla_fichero) in simplifyEGM08
int_quot == [a \in TargetSteps \cup {360 * 60}, p \in EgmPasos |->
                FTrunc(FDiv(FInt(a), FInt(p)))]

\* math.floor(180 * (60 / paso_malla_salida)) + 1
final_bands == [t \in TargetSteps |->
                  FTrunc(FMul(FInt(180), FDiv(FInt(60), FInt(t)))) + 1]

\* get_paso_malla_etopo: 60 / ((num_elements - 1) / 360)
get_paso_malla_etopo == [n \in EtopoFieldCounts |->
                           FDiv(FInt(60), FDiv(FInt(n - 1), FInt(360)))]

\* salto of simplifyETOPO: int(paso_malla_salida / paso_malla_fichero)
salto_etopo == [n \in EtopoFieldCounts, t \in TargetSteps |->
                  FTrunc(FDiv(FInt(t), get_paso_malla_etopo[n]))]

\* middle of simplifyETOPO: math.floor(360 * (60 / paso_malla_fichero) / 2)
middle == [n \in EtopoFieldCounts |->
             FTrunc(FDiv(FMul(FInt(360), FDiv(FInt(60), get_paso_malla_etopo[n])),
                         FInt(2)))]

\* l[a:b] for 0 <= a and 0 <= b <= len(l)
Slice(l, a, b) == IF b > a THEN [k \in 1..(b - a) |-> l[a + k]] ELSE <<>>

\* l[::step]
Stride(l, step) == [k \in 1..((Len(l) + step - 1) \div step) |-> l[(k - 1) * step + 1]]

\* parse_line of simplifyETOPO
parse_line_etopo(l, mid, step) ==
    LET merged == Slice(l, mid, Len(l) - 1) \o Slice(l, 0, Min(mid, Len(l)))
        kept   == Stride(merged, step)
    IN  [k \in 1..Len(kept) |-> kept[k] * 1000]

RECURSIVE chain(_)
chain(rows) == IF rows = <<>> THEN <<>> ELSE Head(rows) \o chain(Tail(rows))

\* the value simplifyETOPO returns when salto is positive
simplifyETOPO(file, mid, step) ==
    LET taken == Stride(file, step)
    IN  chain([k \in 1..Len(taken) |-> parse_line_etopo(taken[k], mid, step)])

\* islice(file, 0, stop, step) from row pos of the file: the rows it yields
islice_rows(file, pos, stop, step) ==
    LET n1 == Min(stop, Len(file) - pos)
    IN  [k \in 1..((n1 + step - 1) \div step) |-> file[pos + (k - 1) * step + 1]]

\* the rows an islice over count rows consumes from row pos of the file
islice_end(file, pos, count) == Min(pos + count, Len(file))

(***************************************************************************)
(* Projection and vertex records.  geo2car depends on the height and the   *)
(* factor through their product only; the record keeps its arguments.      *)
(***************************************************************************)
geo2car(lon, lat, h, factor_exageracion) ==
    [lon |-> lon, lat |-> lat, h |-> h * factor_exageracion]

xyz2vertex(p) == <<"v", p.lon, p.lat, p.h>>

(***************************************************************************)
(* Output directories, files and handles.                                  *)
(***************************************************************************)
outdir_geoide(paso) == <<"salida_geoide_pm", paso>>
outdir_topo(paso) == <<"salida_topo_pm", paso>>

filename_geoide(fe, paso) == <<outdir_geoide(paso), "geoide_f", fe, "pm", paso>>
filename_topo(fe, paso) == <<outdir_topo(paso), "topo_f", fe, "pm", paso>>

\* open(fname, 'wt'): a handle at offset 0 with an empty buffer
open_wt(fname) == [path |-> fname, closed |-> FALSE, buf |-> <<>>]

\* f.write(rec): buffered
write(f, rec) == [f EXCEPT !.buf = Append(@, rec)]

\* what a file holds once buf is written at offset 0
Overlay(old, buf) == buf \o Slice(old, Min(Len(buf), Len(old)), Len(old))

\* f.close(): the buffer reaches the file if the file still exists
RECURSIVE close_all(_, _)
close_all(d, hs) ==
    IF hs = <<>> THEN d
    ELSE LET f == Head(hs)
         IN  close_all(IF ~f.closed /\ f.path \in DOMAIN d
                       THEN [d EXCEPT ![f.path] = Overlay(@, f.buf)]
                       ELSE d,
                       Tail(hs))

closed_handles(hs) == [k \in 1..Len(hs) |-> [hs[k] EXCEPT !.closed = TRUE, !.buf = <<>>]]

Reverse(sq) == [k \in 1..Len(sq) |-> sq[Len(sq) + 1 - k]]

\* shutil.rmtree of both output directories
rmtree(d, doomed) == [f \in {g \in DOMAIN d : g[1] \notin doomed} |-> d[f]]

(***************************************************************************)
(* State of a run.                                                         *)
(***************************************************************************)
VARIABLES
    argv,                  \* the command line after the program name
    inputFiles,            \* the input paths that are regular files
    pc,                    \* the statement the main program is at
    exitStatus,            \* exit status of the process, -1 while it runs
    sigAt,                 \* where the run was when SIGINT arrived, or "none"
    factores_exageracion,  \* list of int once the arguments are accepted
    paso_malla_salida,     \* int once the arguments are accepted
    dirs,                  \* the output directories that exist
    disk,                  \* contents of the output files that exist
    inputsOpen,            \* fileEGM and fileTopo are open
    fileEGM,               \* rows of the undulation grid
    fileTopo,              \* rows of the elevation grid
    posEGM,                \* rows of fileEGM consumed
    files_geoide,          \* write handles, one per factor
    files_topo,            \* write handles, one per factor
    handler,               \* disposition of SIGINT
    salto,                 \* locals of simplifyEGM08
    salto_lat,
    rest_of_lines,
    final,
    iter,                  \* iterations of the band loop done
    lines,
    egm,                   \* result of simplifyEGM08
    topo,                  \* result of simplifyETOPO
    i                      \* index of the export loop

cfgVars == <<argv, inputFiles, factores_exageracion, paso_malla_salida>>
fsVars  == <<dirs, disk, files_geoide, files_topo>>
inVars  == <<inputsOpen, fileEGM, fileTopo>>
egmVars == <<posEGM, salto, salto_lat, rest_of_lines, final, iter, lines, egm>>
vars == <<argv, inputFiles, pc, exitStatus, sigAt, factores_exageracion,
          paso_malla_salida, dirs, disk, inputsOpen, fileEGM, fileTopo, posEGM,
          files_geoide, files_topo, handler, salto, salto_lat, rest_of_lines,
          final, iter, lines, egm, topo, i>>

Init ==
    /\ argv \in ArgVectors
    /\ inputFiles \in SUBSET {EgmPath, EtopoPath}
    /\ pc = "start"
    /\ exitStatus = -1
    /\ sigAt = "none"
    /\ factores_exageracion = <<>>
    /\ paso_malla_salida = -1
    /\ dirs = {}
    /\ disk = <<>>
    /\ inputsOpen = FALSE
    /\ fileEGM = <<>>
    /\ fileTopo = <<>>
    /\ posEGM = 0
    /\ files_geoide = <<>>
    /\ files_topo = <<>>
    /\ handler = "default"
    /\ salto = 0
    /\ salto_lat = 0
    /\ rest_of_lines = 0
    /\ final = 0
    /\ iter = 0
    /\ lines = <<>>
    /\ egm = <<>>
    /\ topo = <<>>
    /\ i = 0

(***************************************************************************)
(* Argument validation, lines 229-306.                                     *)
(***************************************************************************)
\* assert path.isfile(filenameEGM08); assert path.isfile(filenameETOPO)
\* (variant: only the first assert)
paths_valid_first(args, existing) == args[1] \in existing
paths_valid(args, existing) == args[1] \in existing /\ args[2] \in existing

\* every item of the factor list is an int or a string of digits
factores_valid(args) ==
    Len(args) >= 3 => \A k \in 1..Len(split(args[3])) : isdigit(split(args[3])[k])

\* list(map(int, factores_exageracion)); the default is [1]
factores_parsed(args) ==
    IF Len(args) >= 3
    THEN [k \in 1..Len(split(args[3])) |-> int(split(args[3])[k])]
    ELSE <<1>>

\* a mesh step given on the command line is a string of digits
paso_valid(args) == Len(args) >= 4 => isdigit(args[4])

\* int(paso_malla_salida); the default is 60
paso_parsed(args) == IF Len(args) >= 4 THEN int(args[4]) ELSE 60

ParseArguments ==
    /\ pc = "start"
    /\ IF /\ Len(argv) >= 2
          /\ paths_valid(argv, inputFiles)
          /\ factores_valid(argv)
          /\ paso_valid(argv)
       THEN /\ factores_exageracion' = factores_parsed(argv)
            /\ paso_malla_salida' = paso_parsed(argv)
            /\ pc' = "makedir_geoide"
            /\ UNCHANGED exitStatus
       ELSE \* exit(1)
            /\ pc' = "exit"
            /\ exitStatus' = 1
            /\ UNCHANGED <<factores_exageracion, paso_malla_salida>>
    /\ UNCHANGED <<argv, inputFiles, sigAt, fsVars, inVars, egmVars, handler, topo, i>>

(***************************************************************************)
(* Output setup, lines 308-344.                                            *)
(***************************************************************************)
MakeDirGeoide ==
    /\ pc = "makedir_geoide"
    /\ dirs' = dirs \cup {outdir_geoide(paso_malla_salida)}
    /\ pc' = "makedir_topo"
    /\ UNCHANGED <<cfgVars, exitStatus, sigAt, disk, files_geoide, files_topo,
                   inVars, egmVars, handler, topo, i>>

MakeDirTopo ==
    /\ pc = "makedir_topo"
    /\ dirs' = dirs \cup {outdir_topo(paso_malla_salida)}
    /\ pc' = "open_inputs"
    /\ UNCHANGED <<cfgVars, exitStatus, sigAt, disk, files_geoide, files_topo,
                   inVars, egmVars, handler, topo, i>>

\* with ExitStack() as stack, open(filenameEGM08) ..., open(filenameETOPO) ...
OpenInputs ==
    /\ pc = "open_inputs"
    /\ \E h \in EgmBandHeights, n \in EtopoFieldCounts :
          /\ fileEGM' = EgmGrid(h)
          /\ fileTopo' = EtopoGrid(n)
    /\ inputsOpen' = TRUE
    /\ pc' = "open_outputs"
    /\ UNCHANGED <<cfgVars, exitStatus, sigAt, fsVars, egmVars, handler, topo, i>>

\* the two list comprehensions that open one write handle per factor
OpenOutputs ==
    /\ pc = "open_outputs"
    /\ LET fes    == factores_exageracion
           geoide == [k \in 1..Len(fes) |-> open_wt(filename_geoide(fes[k], paso_malla_salida))]
           topos  == [k \in 1..Len(fes) |-> open_wt(filename_topo(fes[k], paso_malla_salida))]
           made   == {geoide[k].path : k \in 1..Len(fes)} \cup {topos[k].path : k \in 1..Len(fes)}
       IN  /\ files_geoide' = geoide
           /\ files_topo' = topos
           /\ disk' = [f \in DOMAIN disk \cup made |-> IF f \in made THEN <<>> ELSE disk[f]]
    /\ pc' = "register"
    /\ UNCHANGED <<cfgVars, exitStatus, sigAt, dirs, inVars, egmVars, handler, topo, i>>

\* signal(SIGINT, partial(signal_handler, files))
RegisterHandler ==
    /\ pc = "register"
    /\ handler' = "signal_handler"
    /\ pc' = "egm_start"
    /\ UNCHANGED <<cfgVars, exitStatus, sigAt, fsVars, inVars, egmVars, topo, i>>

(***************************************************************************)
(* Leaving the with block: the ExitStack closes the write handles in       *)
(* reverse order of opening, then the input files are closed.              *)
(***************************************************************************)
with_exit_disk == close_all(disk, Reverse(files_geoide \o files_topo))

\* an exception nobody catches: the with block is left, status 1
Uncaught ==
    /\ disk' = with_exit_disk
    /\ files_geoide' = closed_handles(files_geoide)
    /\ files_topo' = closed_handles(files_topo)
    /\ inputsOpen' = FALSE
    /\ pc' = "exit"
    /\ exitStatus' = 1
    /\ UNCHANGED <<cfgVars, sigAt, dirs, fileEGM, fileTopo, handler>>

(***************************************************************************)
(* simplifyEGM08, lines 94-137.                                            *)
(***************************************************************************)
\* lines 97-124: the mesh step of the file, the strides and the band count;
\* 60 / paso_malla_salida raises ZeroDivisionError for a step of 0
EgmStart ==
    /\ pc = "egm_start"
    /\ IF paso_malla_salida = 0
       THEN /\ Uncaught
            /\ UNCHANGED <<egmVars, topo, i>>
       ELSE LET paso_malla_fichero == get_paso_malla_egm(fileEGM)
                salto_    == int_quot[paso_malla_salida, paso_malla_fichero]
                salto_lat_ == int_quot[360 * 60, paso_malla_fichero]
            IN  /\ salto' = salto_
                /\ salto_lat' = salto_lat_
                /\ rest_of_lines' = salto_ * salto_lat_ - salto_lat_ + 1
                /\ final' = final_bands[paso_malla_salida]
                /\ posEGM' = 0
                /\ iter' = 0
                /\ lines' = <<>>
                /\ pc' = "egm_loop"
                /\ UNCHANGED <<cfgVars, exitStatus, sigAt, fsVars, inVars, handler,
                               egm, topo, i>>

\* the rows one iteration of the band loop appends, line 128
\* (variant: a slice over the whole band)
band_rows_whole(file, pos, stop, step) == islice_rows(file, pos, stop + 1, step)
band_rows(file, pos, stop, step) == islice_rows(file, pos, stop, step)

\* where one iteration of the band loop leaves the file, lines 128 and 135
band_end(file, pos, stop, rest) ==
    islice_end(file, islice_end(file, pos, stop), rest)

\* lines 125-135: one iteration; islice refuses a step of 0 with ValueError
EgmIter ==
    /\ pc = "egm_loop"
    /\ iter < final
    /\ IF salto = 0
       THEN /\ Uncaught
            /\ UNCHANGED <<egmVars, topo, i>>
       ELSE /\ lines' = lines \o band_rows(fileEGM, posEGM, salto_lat - 1, salto)
            /\ posEGM' = band_end(fileEGM, posEGM, salto_lat - 1, rest_of_lines)
            /\ iter' = iter + 1
            /\ UNCHANGED <<cfgVars, pc, exitStatus, sigAt, fsVars, inVars, handler,
                           salto, salto_lat, rest_of_lines, final, egm, topo, i>>

\* line 137 and the assignment of line 349
EgmReturn ==
    /\ pc = "egm_loop"
    /\ iter = final
    /\ egm' = lines
    /\ pc' = "etopo"
    /\ UNCHANGED <<cfgVars, exitStatus, sigAt, fsVars, inVars, handler, posEGM,
                   salto, salto_lat, rest_of_lines, final, iter, lines, topo, i>>

(***************************************************************************)
(* simplifyETOPO, lines 59-91, and the assignment of line 350.             *)
(***************************************************************************)
EtopoDecimate ==
    /\ pc = "etopo"
    /\ LET num_elements == Len(fileTopo[1])
           salto_ == salto_etopo[num_elements, paso_malla_salida]
       IN  IF salto_ = 0
           THEN /\ Uncaught
                /\ UNCHANGED <<egmVars, topo, i>>
           ELSE /\ topo' = simplifyETOPO(fileTopo, middle[num_elements], salto_)
                /\ pc' = "export"
                /\ i' = 0
                /\ UNCHANGED <<cfgVars, exitStatus, sigAt, fsVars, inVars, handler,
                               egmVars>>

(***************************************************************************)
(* The export loop, lines 353-372.                                         *)
(***************************************************************************)
\* the records of one sample; egm rows are (lat, lon, ond)
geoide_record(row, fe) == xyz2vertex(geo2car(row[2], row[1], row[3], fe))
\* (variant: the elevation without the undulation)
topo_record_hort(row, hort, fe) == xyz2vertex(geo2car(row[2], row[1], hort, fe))
topo_record(row, hort, fe) == xyz2vertex(geo2car(row[2], row[1], hort + row[3], fe))

\* one iteration; topo[i] raises IndexError past the end of topo
ExportStep ==
    /\ pc = "export"
    /\ i < Len(egm)
    /\ IF i >= Len(topo)
       THEN /\ Uncaught
            /\ UNCHANGED <<egmVars, topo, i>>
       ELSE /\ files_geoide' = [k \in 1..Len(files_geoide) |->
                    write(files_geoide[k],
                          geoide_record(egm[i + 1], factores_exageracion[k]))]
            /\ files_topo' = [k \in 1..Len(files_topo) |->
                    write(files_topo[k],
                          topo_record(egm[i + 1], topo[i + 1], factores_exageracion[k]))]
            /\ i' = i + 1
            /\ UNCHANGED <<cfgVars, pc, exitStatus, sigAt, dirs, disk, inVars,
                           handler, egmVars, topo>>

\* the loop is over: the with block is left and the program ends
Finish ==
    /\ pc = "export"
    /\ i = Len(egm)
    /\ disk' = with_exit_disk
    /\ files_geoide' = closed_handles(files_geoide)
    /\ files_topo' = closed_handles(files_topo)
    /\ inputsOpen' = FALSE
    /\ pc' = "done"
    /\ exitStatus' = 0
    /\ UNCHANGED <<cfgVars, sigAt, dirs, fileEGM, fileTopo, handler, egmVars, topo, i>>

(***************************************************************************)
(* SIGINT.                                                                 *)
(***************************************************************************)
Running == pc \notin {"exit", "done"}

\* the directories signal_handler removes, lines 36-37
\* (variant: only the first rmtree)
signal_handler_rmtree_geoide(paso) == {outdir_geoide(paso)}
signal_handler_rmtree(paso) == {outdir_geoide(paso), outdir_topo(paso)}

\* the status signal_handler exits with, line 39
signal_handler_status == 0

\* before the handler is installed SIGINT raises KeyboardInterrupt: a with
\* block that was entered is left, the process dies of the signal (128 + 2)
KeyboardInterrupt ==
    /\ Running
    /\ handler = "default"
    /\ sigAt' = pc
    /\ disk' = with_exit_disk
    /\ files_geoide' = closed_handles(files_geoide)
    /\ files_topo' = closed_handles(files_topo)
    /\ inputsOpen' = FALSE
    /\ pc' = "exit"
    /\ exitStatus' = 130
    /\ UNCHANGED <<cfgVars, dirs, fileEGM, fileTopo, handler, egmVars, topo, i>>

\* signal_handler, lines 32-39: close the write handles, remove both
\* directories, exit(0); SystemExit then leaves the with block
SignalHandler ==
    /\ Running
    /\ handler = "signal_handler"
    /\ sigAt' = pc
    /\ LET doomed == signal_handler_rmtree(paso_malla_salida)
       IN  /\ disk' = rmtree(close_all(disk, files_geoide \o files_topo), doomed)
           /\ dirs' = dirs \ doomed
    /\ files_geoide' = closed_handles(files_geoide)
    /\ files_topo' = closed_handles(files_topo)
    /\ inputsOpen' = FALSE
    /\ pc' = "exit"
    /\ exitStatus' = signal_handler_status
    /\ UNCHANGED <<cfgVars, fileEGM, fileTopo, handler, egmVars, topo, i>>

Next ==
    \/ ParseArguments
    \/ MakeDirGeoide
    \/ MakeDirTopo
    \/ OpenInputs
    \/ OpenOutputs
    \/ RegisterHandler
    \/ EgmStart
    \/ EgmIter
    \/ EgmReturn
    \/ EtopoDecimate
    \/ ExportStep
    \/ Finish
    \/ KeyboardInterrupt
    \/ SignalHandler

Spec == Init /\ [][Next]_vars

(***************************************************************************)
(* Geometry of the grids of a run, for the properties below.               *)
(***************************************************************************)
FullCircle == 360 * 60
HalfCircle == 180 * 60

\* columns of the elevation grid: fields per row less the wrap-around one
Cols == Len(fileTopo[1]) - 1
\* rows per latitude band of the undulation grid
BandHeight == Cardinality({r \in 1..Len(fileEGM) : fileEGM[r][1] = fileEGM[1][1]})

\* step is an exact positive multiple of the native step of a grid that
\* divides the full circle into cols columns
ExactMultiple(step, cols) == step > 0 /\ (step * cols) % FullCircle = 0
ExactStride(step, cols) == (step * cols) \div FullCircle

\* both grids cover the globe: 180*60/native + 1 rows or bands
GlobalGrids ==
    /\ Cols % 2 = 0
    /\ Len(fileTopo) = Cols \div 2 + 1
    /\ BandHeight % 2 = 0
    /\ Len(fileEGM) = BandHeight * (BandHeight \div 2 + 1)

\* the cell of the elevation grid at a latitude and a longitude in degrees,
\* longitude counted 0 .. 360
SignedLon(lon) == IF lon < 180 THEN lon ELSE lon - 360
HasCell(lat, lon) ==
    /\ ((90 - lat) * (Len(fileTopo) - 1)) % 180 = 0
    /\ ((SignedLon(lon) + 180) * Cols) % 360 = 0
CellAt(lat, lon) ==
    fileTopo[((90 - lat) * (Len(fileTopo) - 1)) \div 180 + 1]
            [((SignedLon(lon) + 180) * Cols) \div 360 + 1]

AllHandles == files_geoide \o files_topo
Decimated == topo # <<>>

(***************************************************************************)
(* C1.  Alignment: for global grids and a mesh step that is an exact       *)
(* positive multiple of both native steps (stride 1 included), the two     *)
(* decimated sequences have the same length and the k-th elevation is the  *)
(* cell at the latitude and longitude of the k-th undulation triple.       *)
(***************************************************************************)
C1_Alignment ==
    (/\ pc = "export"
     /\ GlobalGrids
     /\ ExactMultiple(paso_malla_salida, Cols)
     /\ ExactMultiple(paso_malla_salida, BandHeight))
    => /\ Len(egm) = Len(topo)
       /\ \A k \in 1..Len(egm) :
             /\ HasCell(egm[k][1], egm[k][2])
             /\ topo[k] = 1000 * CellAt(egm[k][1], egm[k][2])

(***************************************************************************)
(* C2.  AlignmentFault: a run whose decimated sequences differ in length   *)
(* ends aborted, with no vertex record in any output file, and never in    *)
(* its normal terminal state.                                              *)
(***************************************************************************)
C2_AlignmentFault ==
    (/\ pc \in {"done", "exit"}
     /\ sigAt = "none"
     /\ Decimated
     /\ Len(egm) # Len(topo))
    => /\ pc = "exit"
       /\ exitStatus # 0
       /\ \A f \in DOMAIN disk : disk[f] = <<>>

(***************************************************************************)
(* C3.  ResolutionMismatchFault: a decimator whose grid's native step does *)
(* not divide the mesh step exactly reads no data row and returns nothing: *)
(* no truncated stride is used for decimation.                             *)
(***************************************************************************)
C3_ResolutionMismatch ==
    /\ (fileEGM # <<>> /\ ~ExactMultiple(paso_malla_salida, BandHeight))
          => lines = <<>> /\ egm = <<>> /\ posEGM = 0
    /\ (fileTopo # <<>> /\ ~ExactMultiple(paso_malla_salida, Cols))
          => topo = <<>>

(***************************************************************************)
(* C4.  SIGINT during decimation or the export loop ends the run with      *)
(* every output handle closed, both output directories and their files     *)
(* gone and exit status 0; nothing is written afterwards.                  *)
(***************************************************************************)
C4_InterruptCleanup ==
    sigAt \in {"egm_start", "egm_loop", "etopo", "export"}
    => /\ pc = "exit"
       /\ exitStatus = 0
       /\ \A k \in 1..Len(AllHandles) : AllHandles[k].closed /\ AllHandles[k].buf = <<>>
       /\ ~inputsOpen
       /\ outdir_geoide(paso_malla_salida) \notin dirs
       /\ outdir_topo(paso_malla_salida) \notin dirs
       /\ disk = <<>>

C4_Witness ==
    /\ sigAt = "export"
    /\ i >= 2
    /\ i < Len(egm)
    /\ Len(factores_exageracion) >= 2
    /\ pc = "exit"

(***************************************************************************)
(* C5.  Cancellation at any point of the run leaves no output directory    *)
(* and no open output handle behind.                                       *)
(***************************************************************************)
C5_ScopedCancellation ==
    (pc = "exit" /\ sigAt # "none")
    => /\ dirs = {}
       /\ \A k \in 1..Len(AllHandles) : AllHandles[k].closed

(***************************************************************************)
(* C6.  ConfigurationFault: with fewer than two arguments, a missing input *)
(* path, a factor list with a non-integer item or a non-integer mesh step, *)
(* the process exits with a non-zero status and no grid file is opened or  *)
(* read and no output directory or file is created.                        *)
(***************************************************************************)
IsInteger(str) ==
    LET body == IF str # <<>> /\ str[1] \in {"+", "-"} THEN Tail(str) ELSE str
    IN  body # <<>> /\ \A k \in 1..Len(body) : body[k] \in Digits

ConfigInvalid ==
    \/ Len(argv) < 2
    \/ argv[1] \notin inputFiles
    \/ argv[2] \notin inputFiles
    \/ Len(argv) >= 3 /\ \E k \in 1..Len(split(argv[3])) : ~IsInteger(split(argv[3])[k])
    \/ Len(argv) >= 4 /\ ~IsInteger(argv[4])

C6_ConfigurationFault ==
    ConfigInvalid
    => /\ pc \in {"start", "exit"}
       /\ pc = "exit" => exitStatus # 0
       /\ dirs = {}
       /\ disk = <<>>
       /\ ~inputsOpen
       /\ fileEGM = <<>> /\ fileTopo = <<>>
       /\ AllHandles = <<>>

C6_Witness ==
    /\ pc = "exit"
    /\ exitStatus = 1
    /\ sigAt = "none"
    /\ Len(argv) = 4
    /\ argv[1] \in inputFiles
    /\ argv[2] \notin inputFiles
    /\ isdigit(argv[4])
    /\ factores_valid(argv)

(***************************************************************************)
(* C7.  When the export loop completes with sequences of equal length,     *)
(* the geoid and topography output of every factor hold exactly len(U)     *)
(* records, the k-th being the projection of (lon, lat, ond, fe) and of    *)
(* (lon, lat, T[k] + ond, fe) with (lat, lon, ond) = U[k], in index order. *)
(***************************************************************************)
ExpectedGeoide(fe) == [k \in 1..Len(egm) |-> <<"v", egm[k][2], egm[k][1], egm[k][3] * fe>>]
ExpectedTopo(fe) ==
    [k \in 1..Len(egm) |-> <<"v", egm[k][2], egm[k][1], (topo[k] + egm[k][3]) * fe>>]

C7_ExportRecords ==
    /\ (pc = "export" /\ i = Len(egm) /\ Len(egm) = Len(topo))
          => \A k \in 1..Len(factores_exageracion) :
                /\ files_geoide[k].buf = ExpectedGeoide(factores_exageracion[k])
                /\ files_topo[k].buf = ExpectedTopo(factores_exageracion[k])
    /\ (pc = "done" /\ Len(egm) = Len(topo))
          => \A k \in 1..Len(factores_exageracion) :
                /\ disk[filename_geoide(factores_exageracion[k], paso_malla_salida)]
                      = ExpectedGeoide(factores_exageracion[k])
                /\ disk[filename_topo(factores_exageracion[k], paso_malla_salida)]
                      = ExpectedTopo(factores_exageracion[k])

C7_Witness ==
    /\ pc = "done"
    /\ Len(egm) = Len(topo)
    /\ Len(egm) >= 4
    /\ Len(factores_exageracion) = 2
    /\ factores_exageracion[1] # factores_exageracion[2]

(***************************************************************************)
(* C8.  Elevation-grid decimation: for rows of n fields and a mesh step    *)
(* giving an integer rowStride >= 1, the result is the flattening of the   *)
(* rows 0, rowStride, 2*rowStride, .., each giving the values at positions *)
(* 0, rowStride, .. of r[mid .. n-2] followed by r[0 .. mid-1], with       *)
(* mid = floor((n-1)/2), times 1000; r[n-1] never appears.                 *)
(***************************************************************************)
ExpectedElevations ==
    LET n         == Len(fileTopo[1])
        rowStride == ExactStride(paso_malla_salida, Cols)
        mid       == (n - 1) \div 2
        nrows     == (Len(fileTopo) + rowStride - 1) \div rowStride
        ncols     == (n - 1 + rowStride - 1) \div rowStride
        field(q)  == IF q < (n - 1) - mid THEN mid + q ELSE q - ((n - 1) - mid)
    IN  [k \in 1..(nrows * ncols) |->
            1000 * fileTopo[((k - 1) \div ncols) * rowStride + 1]
                           [field(((k - 1) % ncols) * rowStride) + 1]]

C8_ElevationDecimation ==
    (pc = "export" /\ ExactMultiple(paso_malla_salida, Cols))
    => /\ topo = ExpectedElevations
       /\ \A k \in 1..Len(topo), r \in 1..Len(fileTopo) :
             topo[k] # 1000 * fileTopo[r][Len(fileTopo[r])]

(***************************************************************************)
(* C9.  Undulation-grid decimation for an exact colStride >= 1: the band   *)
(* loop runs floor(180*60/step) + 1 times; every iteration starts at the   *)
(* first row of the band colStride bands after the previous one, appends   *)
(* the rows at offsets 0, colStride, .. below bandHeight - 1 of that band, *)
(* and advances by colStride*bandHeight - bandHeight + 1 rows after them.  *)
(***************************************************************************)
ColStride == ExactStride(paso_malla_salida, BandHeight)

ExpectedBandRows ==
    LET offs == {o \in 0..(BandHeight - 2) : o % ColStride = 0}
    IN  [k \in 1..Cardinality(offs) |-> fileEGM[posEGM + (k - 1) * ColStride + 1]]

C9_Iteration(advance) ==
    (pc = "egm_loop" /\ ExactMultiple(paso_malla_salida, BandHeight))
    => /\ iter < final => posEGM = iter * ColStride * BandHeight
       /\ iter' = iter + 1
             => /\ lines' = lines \o ExpectedBandRows
                /\ posEGM' = advance
       /\ pc' = "etopo" => iter = HalfCircle \div paso_malla_salida + 1

\* as claimed: the cursor always advances by the full count
C9_UndulationDecimation ==
    [][C9_Iteration(posEGM + (BandHeight - 1)
                    + (ColStride * BandHeight - BandHeight + 1))]_vars

\* amended: the cursor stops at the end of the file when fewer rows remain
C9_UndulationDecimationAmended ==
    [][C9_Iteration(Min(posEGM + (BandHeight - 1)
                        + (ColStride * BandHeight - BandHeight + 1),
                        Len(fileEGM)))]_vars

C9_Witness ==
    /\ pc = "etopo"
    /\ ExactMultiple(paso_malla_salida, BandHeight)
    /\ ColStride >= 2
    /\ iter >= 2
    /\ posEGM = Len(fileEGM)
    /\ Len(egm) >= 4

(***************************************************************************)
(* C10.  One writer per output file: no two open write handles share a     *)
(* path, whatever list of factors was accepted.                            *)
(***************************************************************************)
C10_OneWriterPerFile ==
    \A a, b \in 1..Len(AllHandles) :
        (a # b /\ ~AllHandles[a].closed /\ ~AllHandles[b].closed)
        => AllHandles[a].path # AllHandles[b].path

====
